---- MODULE Spec2Model ----
(***************************************************************************)
(* Model of hoarder's RAR volume-set resolver (src/hoarder/rar_path.py),    *)
(* of RarArchive.from_path and get_volumes (src/hoarder/rar_archive.py),   *)
(* of PasswordStore (src/hoarder/passwords/password_store.py), of          *)
(* PasswordSqlite3Repository (src/hoarder/password_store_repository.py)    *)
(* and of RealFileRepository (src/hoarder/realfiles).                      *)
(* Filenames are sequences of one-character strings, so that the two       *)
(* regular expressions, int() and tuple ordering are computed, not assumed.*)
(***************************************************************************)
EXTENDS Integers, Sequences, FiniteSets, TLC

VARIABLES paths, pc, ret, sret, prev, moved,   \* parse_rar_list / rar_sort
          entries, seek, scan, arch,            \* find_rar_files / from_path
          gv,                                   \* RarArchive.get_volumes
          sa, sb, out,                          \* PasswordStore
          pwdb, saves, loaded,                  \* PasswordSqlite3Repository
          rfr, rfdb, rfout                      \* RealFileRepository

rarVars == <<paths, pc, ret, sret, prev, moved>>
scanVars == <<entries, seek, scan, arch, gv>>
storeVars == <<sa, sb, out>>
repoVars == <<pwdb, saves, loaded>>
fileVars == <<rfr, rfdb, rfout>>

vars == <<paths, pc, ret, sret, prev, moved, entries, seek, scan, arch, gv,
          sa, sb, out, pwdb, saves, loaded, rfr, rfdb, rfout>>

\* ------------------------------------------------------------------ bounds
MaxLen == 3
MaxEntries == 3

\* ------------------------------------------------------------- characters
NL == "\n"
Digit == {"0", "1", "2", "3", "4", "5", "6", "7", "8", "9"}

\* ord(): code points of the characters that occur in the inputs
Ord(c) ==
    CASE c = NL  -> 10
      [] c = "." -> 46
      [] c = "/" -> 47
      [] c = "0" -> 48
      [] c = "1" -> 49
      [] c = "2" -> 50
      [] c = "3" -> 51
      [] c = "4" -> 52
      [] c = "5" -> 53
      [] c = "6" -> 54
      [] c = "7" -> 55
      [] c = "8" -> 56
      [] c = "9" -> 57
      [] c = "a" -> 97
      [] c = "b" -> 98
      [] c = "p" -> 112
      [] c = "r" -> 114
      [] c = "t" -> 116
      [] c = "x" -> 120

DigitVal(c) == Ord(c) - 48

\* int(): base-10 value of a non-empty digit string (leading zeros allowed)
RECURSIVE IntOf(_)
IntOf(ds) ==
    IF Len(ds) = 0 THEN 0
    ELSE 10 * IntOf(SubSeq(ds, 1, Len(ds) - 1)) + DigitVal(ds[Len(ds)])

\* str.__lt__: lexicographic comparison by code point
RECURSIVE StrLess(_, _)
StrLess(s, t) ==
    IF Len(t) = 0 THEN FALSE
    ELSE IF Len(s) = 0 THEN TRUE
    ELSE IF s[1] # t[1] THEN Ord(s[1]) < Ord(t[1])
    ELSE StrLess(Tail(s), Tail(t))

\* ---------------------------------------------------------------- RarScheme
AMBIGUOUS == 0
DOT_RNN == 3
PART_N == 5

\* ------------------------------------------------------- regular expressions
\* None: the value of a group that did not take part in the match
None == <<"None">>

NoMatch == [matched |-> FALSE, string |-> <<>>, stem |-> <<>>,
            volume_index |-> None, suffix |-> <<>>]

\* the literal lit occurs in s starting at position from
Lit(s, from, lit) ==
    /\ from >= 1
    /\ from + Len(lit) - 1 <= Len(s)
    /\ SubSeq(s, from, from + Len(lit) - 1) = lit

\* `.` matches any character except a line break
DotPlus(t) == Len(t) >= 1 /\ \A i \in 1..Len(t) : t[i] # NL

\* \d+ / \d\d
AllDigits(t) == Len(t) >= 1 /\ \A i \in 1..Len(t) : t[i] \in Digit

\* `$` matches at the end of the string and just before a final line break
EndPositions(s) ==
    {Len(s)} \cup (IF Len(s) >= 1 /\ s[Len(s)] = NL THEN {Len(s) - 1} ELSE {})

SetMax(S) == CHOOSE x \in S : \A y \in S : y <= x
SetMin(S) == CHOOSE x \in S : \A y \in S : x <= y

\* PART_N_PAT: ^(?P<stem>.+)\.part(?P<volume_index>\d+)\.(?P<suffix>rar)$
\* a split <<k, d>>: stem = s[1..k], ".part" = s[k+1..k+5], digits = s[k+6..d],
\* ".rar" = s[d+1..d+4]
PartNSplits(s) ==
    {kd \in (1..Len(s)) \X (1..Len(s)) :
        /\ DotPlus(SubSeq(s, 1, kd[1]))
        /\ Lit(s, kd[1] + 1, <<".", "p", "a", "r", "t">>)
        /\ kd[2] >= kd[1] + 6
        /\ AllDigits(SubSeq(s, kd[1] + 6, kd[2]))
        /\ Lit(s, kd[2] + 1, <<".", "r", "a", "r">>)
        /\ kd[2] + 4 \in EndPositions(s)}

PART_N_PAT_match(s) ==
    LET S == PartNSplits(s) IN
    IF S = {} THEN NoMatch
    ELSE LET k == SetMax({kd[1] : kd \in S})            \* .+ is greedy
             d == SetMax({kd[2] : kd \in {x \in S : x[1] = k}})
         IN [matched |-> TRUE, string |-> s, stem |-> SubSeq(s, 1, k),
             volume_index |-> SubSeq(s, k + 6, d),
             suffix |-> SubSeq(s, d + 2, d + 4)]

\* mutant: the Legacy stem may not contain a dot ([^.]+ in place of .+)
DotRnnSplits_dotless_stem(s) ==
    {k \in 1..Len(s) :
        /\ DotPlus(SubSeq(s, 1, k))
        /\ \A i \in 1..k : s[i] # "."
        /\ Lit(s, k + 1, <<".">>)
        /\ \/ Lit(s, k + 2, <<"r", "a", "r">>)
           \/ Lit(s, k + 2, <<"r">>) /\ k + 4 <= Len(s)
                                     /\ AllDigits(SubSeq(s, k + 3, k + 4))
        /\ k + 4 \in EndPositions(s)}

\* DOT_RNN_PAT: ^(?P<stem>.+)\.(?P<suffix>rar|r(?P<volume_index>\d\d))$
\* a split k: stem = s[1..k], "." = s[k+1], suffix = s[k+2..k+4]
DotRnnSplits(s) ==
    {k \in 1..Len(s) :
        /\ DotPlus(SubSeq(s, 1, k))
        /\ Lit(s, k + 1, <<".">>)
        /\ \/ Lit(s, k + 2, <<"r", "a", "r">>)
           \/ Lit(s, k + 2, <<"r">>) /\ k + 4 <= Len(s)
                                     /\ AllDigits(SubSeq(s, k + 3, k + 4))
        /\ k + 4 \in EndPositions(s)}

DOT_RNN_PAT_match(s) ==
    LET S == DotRnnSplits(s) IN
    IF S = {} THEN NoMatch
    ELSE LET k == SetMax(S)                              \* .+ is greedy
         IN [matched |-> TRUE, string |-> s, stem |-> SubSeq(s, 1, k),
             volume_index |-> IF Lit(s, k + 2, <<"r", "a", "r">>) THEN None
                              ELSE SubSeq(s, k + 3, k + 4),
             suffix |-> SubSeq(s, k + 2, k + 4)]

\* ------------------------------------------------------------------ RARPath
\* mutant: the path is cut down to the stem
from_match_lost_path(match) ==
    [volume_index |-> IF match.volume_index = None THEN -1
                      ELSE IntOf(match.volume_index),
     path |-> match.stem,
     stem |-> match.stem,
     suffix |-> match.suffix]

from_match(match) ==
    [volume_index |-> IF match.volume_index = None THEN -1
                      ELSE IntOf(match.volume_index),
     path |-> match.string,
     stem |-> match.stem,
     suffix |-> match.suffix]

\* mutant: the path text is compared before the volume index
RARPathLess_path_first(x, y) ==
    IF x.path # y.path THEN StrLess(x.path, y.path)
    ELSE IF x.volume_index # y.volume_index THEN x.volume_index < y.volume_index
    ELSE IF x.stem # y.stem THEN StrLess(x.stem, y.stem)
    ELSE StrLess(x.suffix, y.suffix)

\* tuple.__lt__ on (volume_index, path, stem, suffix)
RARPathLess(x, y) ==
    IF x.volume_index # y.volume_index THEN x.volume_index < y.volume_index
    ELSE IF x.path # y.path THEN StrLess(x.path, y.path)
    ELSE IF x.stem # y.stem THEN StrLess(x.stem, y.stem)
    ELSE StrLess(x.suffix, y.suffix)

\* sorted(): stable insertion sort under RARPathLess
RECURSIVE Insert(_, _)
Insert(x, s) ==
    IF Len(s) = 0 THEN <<x>>
    ELSE IF RARPathLess(x, s[1]) THEN <<x>> \o s
    ELSE <<s[1]>> \o Insert(x, Tail(s))

\* mutant: the list is handed back in input order
sorted_unsorted(s) == s

RECURSIVE sorted(_)
sorted(s) ==
    IF Len(s) = 0 THEN <<>>
    ELSE Insert(s[Len(s)], sorted(SubSeq(s, 1, Len(s) - 1)))

\* ------------------------------------------------------------------- inputs
A == <<"a">>
B == <<"b">>
RAR == <<".", "r", "a", "r">>
PART == <<".", "p", "a", "r", "t">>

Names ==
    { A \o RAR,                              \* a.rar
      A \o <<".", "r", "0", "0">>,           \* a.r00
      A \o <<".", "r", "0", "1">>,           \* a.r01
      A \o <<".", "r", "0", "2">>,           \* a.r02
      A \o PART \o <<"0">> \o RAR,           \* a.part0.rar
      A \o PART \o <<"1">> \o RAR,           \* a.part1.rar
      A \o PART \o <<"0", "1">> \o RAR,      \* a.part01.rar
      A \o PART \o <<"2">> \o RAR,           \* a.part2.rar
      A \o PART \o <<"3">> \o RAR,           \* a.part3.rar
      A \o PART \o <<"1">> \o <<".", "r", "0", "0">>,   \* a.part1.r00
      B \o RAR,                              \* b.rar
      B \o PART \o <<"2">> \o RAR,           \* b.part2.rar
      A \o <<".", "t", "x", "t">>,           \* a.txt
      A \o RAR \o <<NL>>,                   \* "a.rar\n"
      A \o <<NL>> \o RAR }                   \* "a\n.rar"

Inputs == UNION {[1..n -> Names] : n \in 0..MaxLen}

\* the names of the entries a scanned directory may hold
EntryNames ==
    { A \o RAR,                              \* a.rar
      A \o <<".", "r", "0", "0">>,           \* a.r00
      A \o PART \o <<"1">> \o RAR,           \* a.part1.rar
      A \o PART \o <<"2">> \o RAR,           \* a.part2.rar
      A \o PART \o <<"0", "1">> \o RAR,      \* a.part01.rar
      A \o PART \o <<"0", "2">> \o RAR,      \* a.part02.rar
      B \o RAR,                              \* b.rar
      B \o <<".", "r", "0", "0">>,           \* b.r00
      A \o <<".", "t", "x", "t">> }          \* a.txt

\* the scanned directory; str(directory / name) is DirPath/name
DirPath == <<"x">>
full_path(name) == DirPath \o <<"/">> \o name

\* full paths in two directories, as a caller of parse_rar_list may give them
FullPaths ==
    { <<"a", "/">> \o A \o RAR,                        \* a/a.rar
      <<"a", "/">> \o A \o <<".", "r", "0", "0">>,     \* a/a.r00
      <<"b", "/">> \o A \o <<".", "r", "0", "0">>,     \* b/a.r00
      <<"a", "/">> \o RAR,                             \* a/.rar
      <<"a", "/">> \o A \o PART \o <<"1">> \o RAR,     \* a/a.part1.rar
      <<"b", "/">> \o A \o PART \o <<"2">> \o RAR,     \* b/a.part2.rar
      <<"a", "/">> \o A \o <<".", "t", "x", "t">> }    \* a/a.txt

\* names whose indices do not come out of a set in ascending order
IndexNames ==
    { A \o RAR,                              \* a.rar
      A \o <<".", "r", "0", "9">>,           \* a.r09
      A \o <<".", "r", "1", "6">>,           \* a.r16
      A \o PART \o <<"1">> \o RAR,           \* a.part1.rar
      A \o PART \o <<"9">> \o RAR,           \* a.part9.rar
      A \o PART \o <<"1", "6">> \o RAR }     \* a.part16.rar

\* PurePath.name: the text after the last separator
name_of(path) ==
    LET seps == {i \in 1..Len(path) : path[i] = "/"}
    IN IF seps = {} THEN path ELSE SubSeq(path, SetMax(seps) + 1, Len(path))

\* every string a pattern is applied to
AllNames ==
    Names \cup EntryNames \cup {full_path(n) : n \in EntryNames}
          \cup FullPaths \cup {name_of(q) : q \in FullPaths}
          \cup IndexNames

\* the compiled patterns applied to each distinct filename (computed once)
PART_N_PAT_table == [s \in AllNames |-> PART_N_PAT_match(s)]
DOT_RNN_PAT_table == [s \in AllNames |-> DOT_RNN_PAT_match(s)]

\* ---------------------------------------------------------------- set[int]
\* CPython's set of small ints: a table of 8 slots (PySet_MINSIZE), which holds
\* up to 4 keys before it is resized; iteration visits the slots in order.
SetSlots == 8
EmptySlot == -99
EmptyTable == [i \in 0..(SetSlots - 1) |-> EmptySlot]

\* hash(int): the value itself, except hash(-1) = -2
hash_int(x) == IF x = -1 THEN -2 ELSE x

\* perturb after its first shift (hash >> 5); for the negative hash of -1 the
\* shifted values leave the probe on its slot until perturb has run out
perturb_of(x) == IF x < 0 THEN 0 ELSE hash_int(x) \div 32

\* set_add_entry: the slot a key ends up in (no linear probes in a table of 8;
\* after a collision i = (i * 5 + 1 + perturb) & mask)
RECURSIVE find_slot(_, _, _, _)
find_slot(table, x, i, perturb) ==
    IF table[i] = EmptySlot \/ table[i] = x THEN i
    ELSE find_slot(table, x, (i * 5 + 1 + perturb) % SetSlots, perturb \div 32)

set_add(table, x) ==
    [table EXCEPT ![find_slot(table, x, hash_int(x) % SetSlots, perturb_of(x))] = x]

\* set(iterable) / a set comprehension: the keys are added in order
RECURSIVE set_of(_)
set_of(seq) ==
    IF Len(seq) = 0 THEN EmptyTable
    ELSE set_add(set_of(SubSeq(seq, 1, Len(seq) - 1)), seq[Len(seq)])

\* iter(set): the keys in slot order
RECURSIVE set_iter(_)
set_iter(table) ==
    LET used == {i \in DOMAIN table : table[i] # EmptySlot}
    IN IF used = {} THEN <<>>
       ELSE <<table[SetMin(used)]>> \o
            set_iter([table EXCEPT ![SetMin(used)] = EmptySlot])

\* set_difference: the keys of so that are not in other, added to a new set
\* in the iteration order of so
set_difference(so, other) ==
    set_of(SelectSeq(set_iter(so), LAMBDA x : \A i \in DOMAIN other : other[i] # x))

\* range(a, a + n) as a sequence
range_seq(a, n) == [i \in 1..n |-> a + i - 1]

\* ----------------------------------------------------------- parse_rar_list
\* outcome of a call: a returned (scheme, parsed) pair or a raised ValueError.
\* line is the source line of the return / raise statement that ended the
\* call; actual is the local set `actual` at that point ({} before line 110).
\* text is the wording of the ValueError message, with the formatted value
\* (held in err_path, err_count or err_indices) left as a placeholder.
Return(scheme, parsed, actual, line) ==
    [ok |-> TRUE, scheme |-> scheme, parsed |-> parsed, err |-> "",
     err_path |-> <<>>, err_count |-> 0, err_indices |-> {},
     actual |-> actual, line |-> line, text |-> "", listed |-> <<>>]

\* lines 97, 108, 131-133, 138-141, 144-146: the message of each ValueError
message_text(err) ==
    CASE err = "no_match" -> "\"{path}\" does not match the scheme-3 pattern"
      [] err = "stem" -> "{rp} has an inconsistent stem"
      [] err = "unnumbered" ->
            "{n_unnumbered} paths have a non-indexed suffix; must be exactly one"
      [] err = "unexpected" -> "The following indices are unexpected: {spurious}"
      [] err = "missing" -> "The following indices are missing: {missing}"
      [] OTHER -> ""

Raise(err, err_path, err_count, err_indices, scheme, actual, line) ==
    [ok |-> FALSE, scheme |-> scheme, parsed |-> <<>>, err |-> err,
     err_path |-> err_path, err_count |-> err_count,
     err_indices |-> err_indices, actual |-> actual, line |-> line,
     text |-> message_text(err), listed |-> <<>>]

\* mutant: the early return for the empty input is gone
is_empty_never(ps) == FALSE

\* lines 85-87: the empty input is answered before anything is matched
is_empty(ps) == Len(ps) = 0

\* line 89
part_matches(ps) == [i \in 1..Len(ps) |-> PART_N_PAT_table[ps[i]]]

\* line 92
dot_matches(ps) == [i \in 1..Len(ps) |-> DOT_RNN_PAT_table[ps[i]]]

\* line 91: any(m is None for m in matches)
any_none(ms) == \E i \in 1..Len(ms) : ~ms[i].matched

\* mutant: two files still count as the single-file case
first_scheme_two(ps) ==
    IF any_none(part_matches(ps)) THEN DOT_RNN
    ELSE IF Len(ps) > 2 THEN PART_N
    ELSE AMBIGUOUS

\* lines 91-101: the scheme the matching step settles on
first_scheme(ps) ==
    IF any_none(part_matches(ps)) THEN DOT_RNN
    ELSE IF Len(ps) > 1 THEN PART_N
    ELSE AMBIGUOUS

\* lines 89-92: the match list after the matching step
final_matches(ps) ==
    IF any_none(part_matches(ps)) THEN dot_matches(ps) ELSE part_matches(ps)

\* mutant: the comparison starts one entry late (parsed[2:])
inconsistent_stems_late(parsed) ==
    {i \in 3..Len(parsed) : parsed[i].stem # parsed[1].stem}

\* lines 105-108: positions whose stem differs from the first entry's
inconsistent_stems(parsed) ==
    {i \in 2..Len(parsed) : parsed[i].stem # parsed[1].stem}

\* line 110
actual_of(parsed) == {parsed[i].volume_index : i \in 1..Len(parsed)}

\* mutant: part numbering taken to start at 0
base_zero(scheme) == IF scheme = PART_N THEN 0 ELSE -1

\* lines 112-122
base_of(scheme) == IF scheme = PART_N THEN 1 ELSE -1

\* mutant: the set is compared with a list, which is never equal
accept_never(scheme, actual) == FALSE

\* line 119: the lone Part-pattern file is accepted as it is
accept_ambiguous(scheme, actual) == scheme = AMBIGUOUS /\ actual = {1}

\* mutant: line 126 is missing
reinterpreted_actual_kept(scheme, actual) == actual

\* lines 117-126: what is left of `actual` after the match statement
reinterpreted_actual(scheme, actual) ==
    IF scheme = AMBIGUOUS THEN {-1} ELSE actual

\* mutant: the single file is taken to be part-numbered
reinterpreted_scheme_part(scheme) ==
    IF scheme = AMBIGUOUS THEN PART_N ELSE scheme

\* lines 117-121: what is left of `scheme` after the match statement
reinterpreted_scheme(scheme) ==
    IF scheme = AMBIGUOUS THEN DOT_RNN ELSE scheme

\* line 129
n_unnumbered_of(parsed) ==
    Cardinality({i \in 1..Len(parsed) : parsed[i].suffix = <<"r", "a", "r">>})

\* mutant: the range stops one short
expected_short(base, n) == base .. (base + n - 2)

\* mutant: "at most one" instead of "exactly one"
unnumbered_at_most_one(n) == n <= 1

\* line 130: n_unnumbered != 1 raises
unnumbered_ok(n) == n = 1

\* mutant: the non-indexed-suffix count is never looked at
legacy_check_never(scheme) == FALSE

\* line 128: the non-indexed-suffix count is looked at for DOT_RNN only
legacy_check(scheme) == scheme = DOT_RNN

\* line 135: set(range(base, base + len(paths)))
expected_of(base, n) == base .. (base + n - 1)

\* mutant: missing is looked at before spurious
completeness_missing_first(scheme, parsed, actual, expected) ==
    IF expected \ actual # {}
    THEN Raise("missing", <<>>, 0, expected \ actual, scheme, actual, 144)
    ELSE IF actual \ expected # {}
    THEN Raise("unexpected", <<>>, 0, actual \ expected, scheme, actual, 138)
    ELSE Return(scheme, parsed, actual, 148)

\* lines 136-146: spurious is looked at before missing
completeness(scheme, parsed, actual, expected) ==
    IF actual \ expected # {}
    THEN Raise("unexpected", <<>>, 0, actual \ expected, scheme, actual, 138)
    ELSE IF expected \ actual # {}
    THEN Raise("missing", <<>>, 0, expected \ actual, scheme, actual, 144)
    ELSE Return(scheme, parsed, actual, 148)

\* lines 110, 126: the set object `actual`, built from parsed in order or,
\* after the reinterpretation, the literal {-1}
actual_set(parsed, actual) ==
    IF actual = actual_of(parsed)
    THEN set_of([i \in 1..Len(parsed) |-> parsed[i].volume_index])
    ELSE set_of(<<-1>>)

\* lines 139-140, 145: ", ".join(str(i) for i in spurious) resp. missing,
\* as the sequence of the indices in the order they are written
joined(r, parsed, n) ==
    LET base == IF r.scheme = PART_N THEN 1 ELSE -1
        expected == set_of(range_seq(base, n))
    IN IF r.err = "unexpected"
       THEN [r EXCEPT !.listed =
                set_iter(set_difference(actual_set(parsed, r.actual), expected))]
       ELSE IF r.err = "missing"
       THEN [r EXCEPT !.listed =
                set_iter(set_difference(expected, actual_set(parsed, r.actual)))]
       ELSE r

parse_rar_list(ps) ==
    IF is_empty(ps) THEN Return(PART_N, <<>>, {}, 87)
    ELSE
    LET scheme0 == first_scheme(ps)
        matches == final_matches(ps)
    IN
    IF any_none(matches)
    THEN LET i == SetMin({j \in 1..Len(ps) : ~matches[j].matched})
         IN Raise("no_match", ps[i], 0, {}, scheme0, {}, 97)
    ELSE
    LET parsed == [i \in 1..Len(ps) |-> from_match(matches[i])]
        bad == inconsistent_stems(parsed)
    IN
    IF bad # {}
    THEN Raise("stem", parsed[SetMin(bad)].path, 0, {}, scheme0, {}, 108)
    ELSE
    LET actual0 == actual_of(parsed) IN
    IF accept_ambiguous(scheme0, actual0)
    THEN Return(scheme0, parsed, actual0, 120)
    ELSE
    LET scheme == reinterpreted_scheme(scheme0)
        base == base_of(scheme)
        actual == reinterpreted_actual(scheme0, actual0)
        n_unnumbered == n_unnumbered_of(parsed)
    IN
    IF legacy_check(scheme) /\ ~unnumbered_ok(n_unnumbered)
    THEN Raise("unnumbered", <<>>, n_unnumbered, {}, scheme, actual, 131)
    ELSE joined(completeness(scheme, parsed, actual, expected_of(base, Len(ps))),
                parsed, Len(ps))

\* ----------------------------------------------------------------- rar_sort
\* lines 151-153: the error of parse_rar_list propagates unchanged
rar_sort(ps) ==
    LET r == parse_rar_list(ps) IN
    IF r.ok
    THEN [r EXCEPT !.parsed = [i \in 1..Len(r.parsed) |-> sorted(r.parsed)[i].path]]
    ELSE r

\* ----------------------------------------------------------- find_rar_files
\* seek_stem = None
NoSeek == <<"None">>

\* no ValueError
NoError == Raise("", <<>>, 0, {}, 0, {}, 0)

\* mutant: the Legacy pattern is tried before the Part pattern
entry_match_dot_first(name) ==
    IF DOT_RNN_PAT_table[name].matched THEN DOT_RNN_PAT_table[name]
    ELSE PART_N_PAT_table[name]

\* lines 162, 170: the Part pattern, else the Legacy pattern, on path.name
entry_match(name) ==
    IF PART_N_PAT_table[name].matched THEN PART_N_PAT_table[name]
    ELSE DOT_RNN_PAT_table[name]

\* mutant: the seek_stem filter is missing
keeps_all(sk, stem) == TRUE

\* lines 164-165, 171-172: `if seek_stem and stem != seek_stem: continue`
keeps(sk, stem) == sk = NoSeek \/ sk = <<>> \/ stem = sk

\* lines 166-169, 174-177: rar_dict keeps its keys in insertion order
add_to_group(groups, stem, name) ==
    IF \E i \in 1..Len(groups) : groups[i].key = stem
    THEN [i \in 1..Len(groups) |->
            IF groups[i].key = stem
            THEN [groups[i] EXCEPT !.members = Append(@, name)]
            ELSE groups[i]]
    ELSE Append(groups, [key |-> stem, members |-> <<name>>])

\* lines 160-177: the loop over directory.iterdir()
RECURSIVE group_entries(_, _, _)
group_entries(es, sk, groups) ==
    IF Len(es) = 0 THEN groups
    ELSE LET m == entry_match(Head(es)) IN
         IF m.matched /\ keeps(sk, m.stem)
         THEN group_entries(Tail(es), sk, add_to_group(groups, m.stem, Head(es)))
         ELSE group_entries(Tail(es), sk, groups)

\* line 180: rar_sort(v), v holding the entries' full paths
sort_group(g) == rar_sort([j \in 1..Len(g.members) |-> full_path(g.members[j])])

\* line 181: ret_dict[k] = (scheme, [Path(p) for p in rar_volumes])
ret_item(g, sorted_g) ==
    [key |-> g.key, scheme |-> sorted_g.scheme, volumes |-> sorted_g.parsed]

\* mutant: a group that fails validation is left out of the mapping
sort_groups_tolerant(groups, results) ==
    LET good == {i \in 1..Len(groups) : results[i].ok}
        nth(k) == CHOOSE i \in good : Cardinality({j \in good : j < i}) = k - 1
    IN [ok |-> TRUE,
        groups |-> [k \in 1..Cardinality(good) |->
                      ret_item(groups[nth(k)], results[nth(k)])],
        error |-> NoError]

\* lines 178-182: results[i] is the outcome of rar_sort for groups[i]; the
\* first group that fails validation ends the scan
sort_groups(groups, results) ==
    LET failing == {i \in 1..Len(groups) : ~results[i].ok}
    IN IF failing # {}
       THEN [ok |-> FALSE, groups |-> <<>>, error |-> results[SetMin(failing)]]
       ELSE [ok |-> TRUE,
             groups |-> [i \in 1..Len(groups) |-> ret_item(groups[i], results[i])],
             error |-> NoError]

\* lines 156-182
find_rar_files(es, sk) ==
    LET rar_dict == group_entries(es, sk, <<>>)
    IN sort_groups(rar_dict, [i \in 1..Len(rar_dict) |-> sort_group(rar_dict[i])])

\* ------------------------------------------------------ RarArchive.from_path
\* rar_archive.py: a constructed archive, or the exception that ended the call
Archive(path, scheme, n_volumes) ==
    [ok |-> TRUE, path |-> path, scheme |-> scheme, n_volumes |-> n_volumes,
     raised |-> "", error |-> NoError]

ArchiveRaise(raised, error) ==
    [ok |-> FALSE, path |-> <<>>, scheme |-> -1, n_volumes |-> 0,
     raised |-> raised, error |-> error]

\* rar_archive.py lines 91-94: DOT_RNN_PAT.match(name) or PART_N_PAT.match(name)
main_match(name) ==
    IF DOT_RNN_PAT_table[name].matched THEN DOT_RNN_PAT_table[name]
    ELSE PART_N_PAT_table[name]

\* rar_archive.py lines 76-88: the path is the scanned directory; r is the
\* outcome of find_rar_files(path)
from_path_dir(r) ==
    IF ~r.ok THEN ArchiveRaise("ValueError", r.error)
    ELSE IF Len(r.groups) # 1
    THEN ArchiveRaise("contains multiple non-indexed RAR files", NoError)
    ELSE Archive(r.groups[1].volumes[1], r.groups[1].scheme,
                 Len(r.groups[1].volumes))

\* rar_archive.py lines 95-111: the name matched with m; r is the outcome of
\* find_rar_files(path.parent, seek_stem) for seek_stem = m["stem"]
from_path_found(m, r) ==
    IF ~r.ok THEN ArchiveRaise("ValueError", r.error)
    ELSE IF Len(r.groups) = 0
    THEN ArchiveRaise("does not match any RAR pattern", NoError)
    ELSE LET g == CHOOSE i \in 1..Len(r.groups) : r.groups[i].key = m.stem
         IN Archive(r.groups[g].volumes[1], r.groups[g].scheme,
                    Len(r.groups[g].volumes))

\* rar_archive.py lines 89-113: the path is a file of the scanned directory
from_path_file(es, name) ==
    IF ~main_match(name).matched
    THEN ArchiveRaise("does not match any RAR pattern", NoError)
    ELSE from_path_found(main_match(name),
                         find_rar_files(es, main_match(name).stem))

\* rar_archive.py lines 69-144; list_rar (the external 7z listing of the main
\* volume) is taken to succeed, and its entries are not part of the model
from_path(es, given) ==
    IF given = DirPath THEN from_path_dir(find_rar_files(es, NoSeek))
    ELSE IF \E i \in 1..Len(es) : given = full_path(es[i])
    THEN from_path_file(es, name_of(given))
    ELSE ArchiveRaise("FileNotFoundError", NoError)

\* --------------------------------------------------- RarArchive.get_volumes
\* str(int) for a natural number
RECURSIVE str_int(_)
str_int(n) ==
    LET d == CHOOSE c \in Digit : DigitVal(c) = n % 10
    IN IF n < 10 THEN <<d>> ELSE str_int(n \div 10) \o <<d>>

\* f"{index:02d}": at least two digits
format_02d(n) == IF n < 10 THEN <<"0">> \o str_int(n) ELSE str_int(n)

\* PurePath.parent of a path with a directory part
path_parent(path) ==
    LET seps == {i \in 1..Len(path) : path[i] = "/"}
    IN IF seps = {} THEN <<".">> ELSE SubSeq(path, 1, SetMax(seps) - 1)

\* parent / name
path_join(parent, name) == parent \o <<"/">> \o name

\* PurePath.stem: the name without its last suffix (a leading or a trailing
\* dot starts no suffix)
path_stem(path) ==
    LET name == name_of(path)
        dots == {i \in 2..(Len(name) - 1) : name[i] = "."}
    IN IF dots = {} THEN name ELSE SubSeq(name, 1, SetMax(dots) - 1)

\* str.split(".part")[0]: the text before the first ".part"
split_part_first(str) ==
    LET at == {i \in 1..(Len(str) - 4) : SubSeq(str, i, i + 4) = PART}
    IN IF at = {} THEN str ELSE SubSeq(str, 1, SetMin(at) - 1)

\* Path.exists() for a path of the scanned directory
exists(es, path) == \E i \in 1..Len(es) : full_path(es[i]) = path

VolumesReturn(volumes) ==
    [ok |-> TRUE, volumes |-> volumes, raised |-> "", text |-> ""]
VolumesRaise(raised, text) ==
    [ok |-> FALSE, volumes |-> <<>>, raised |-> raised, text |-> text]

\* line 58: f"{stem}.part{index}.rar"
part_volume_name(stem, index) == stem \o PART \o str_int(index) \o RAR

\* line 52: f"{self.path.stem}.r{index:02d}"
legacy_volume_name(stem, index) == stem \o <<".", "r">> \o format_02d(index)

\* n_volumes of an archive whose volumes are not set (None)
VolumesNotSet == -1

\* lines 42-67: get_volumes of RarArchive(path, scheme=scheme, n_volumes=n_volumes)
\* in a directory holding the entries es
get_volumes(es, path, scheme, n_volumes) ==
    IF n_volumes = VolumesNotSet THEN VolumesRaise("ValueError", "Volumes not set for {path}")
    ELSE IF n_volumes = 0
    THEN VolumesRaise("ValueError", "Invalid number of volumes for {path}")
    ELSE IF n_volumes = 1 THEN VolumesReturn(<<path>>)
    ELSE IF scheme = DOT_RNN
    THEN VolumesReturn(
             <<path_join(path_parent(path), path_stem(path) \o RAR)>> \o
             [k \in 1..(n_volumes - 1) |->
                 path_join(path_parent(path), legacy_volume_name(path_stem(path), k - 1))])
    ELSE IF scheme = PART_N
    THEN LET stem == split_part_first(path_stem(path))
             volume_list == [k \in 1..n_volumes |->
                                path_join(path_parent(path), part_volume_name(stem, k))]
         IN IF \E k \in 1..n_volumes : ~exists(es, volume_list[k])
            THEN VolumesRaise("FileNotFoundError", "Volume {p} not found")
            ELSE VolumesReturn(volume_list)
    ELSE VolumesRaise("ValueError", "Ambiguous RAR file {path} with {n_volumes} volumes")

\* ------------------------------------------------------------ PasswordStore
\* password_store.py: _store is a defaultdict(set); a store is the function
\* from its keys to their password sets (a key may hold the empty set)
Titles == {"t1", "t2"}
Passwords == {"p1", "p2"}

\* dict item assignment / deletion
dict_set(d, k, v) == [x \in (DOMAIN d) \cup {k} |-> IF x = k THEN v ELSE d[x]]
dict_del(d, k) == [x \in (DOMAIN d) \ {k} |-> d[x]]

\* defaultdict.__getitem__: a missing key is inserted with set()
default_get(d, k) == IF k \in DOMAIN d THEN d ELSE dict_set(d, k, {})

\* lines 14-23: PasswordStore(data)
new_store(data) == [t \in DOMAIN data |-> data[t]]

\* the outcome of a method: the store afterwards, the returned value and the
\* exception raised, if any
StoreResult(self, flag, value, raised) ==
    [self |-> self, flag |-> flag, value |-> value, raised |-> raised]

\* lines 25-27: __getitem__ (the returned set is a copy)
store_getitem(d, title) ==
    StoreResult(default_get(d, title), FALSE, default_get(d, title)[title], "")

\* lines 29-30: __contains__
store_contains(d, title) == title \in DOMAIN d

\* lines 32-33: __len__
store_len(d) == Cardinality(DOMAIN d)

\* lines 35-45: add_password (title and password are str here, so the two
\* isinstance checks pass)
add_password(d, title, password) ==
    IF title = "" THEN StoreResult(d, FALSE, {}, "Empty title")
    ELSE IF password = "" THEN StoreResult(d, FALSE, {}, "Empty password")
    ELSE StoreResult(dict_set(d, title, default_get(d, title)[title] \cup {password}),
                     FALSE, {}, "")

\* mutant: a title left without passwords stays in the store
remove_password_keep_title(d, title, password) ==
    IF title \in DOMAIN d /\ password \in d[title]
    THEN StoreResult(dict_set(d, title, d[title] \ {password}), TRUE, {}, "")
    ELSE StoreResult(d, FALSE, {}, "")

\* lines 47-55: remove_password
remove_password(d, title, password) ==
    IF title \in DOMAIN d /\ password \in d[title]
    THEN IF d[title] \ {password} = {}
         THEN StoreResult(dict_del(d, title), TRUE, {}, "")
         ELSE StoreResult(dict_set(d, title, d[title] \ {password}), TRUE, {}, "")
    ELSE StoreResult(d, FALSE, {}, "")

\* lines 72-75: clear_passwords
clear_passwords(d, title) ==
    StoreResult(IF title \in DOMAIN d THEN dict_del(d, title) ELSE d, FALSE, {}, "")

\* lines 57-59: __iter__, the (title, password) pairs a loop over it visits
store_pairs(d) == {tp \in (DOMAIN d) \X Passwords : tp[2] \in d[tp[1]]}

\* lines 61-65: __ior__, add_password for every pair of p (the first
\* exception ends the loop)
RECURSIVE add_all(_, _)
add_all(d, pairs) ==
    IF pairs = {} THEN StoreResult(d, FALSE, {}, "")
    ELSE LET tp == CHOOSE x \in pairs : TRUE
             r == add_password(d, tp[1], tp[2])
         IN IF r.raised # "" THEN r ELSE add_all(r.self, pairs \ {tp})

store_ior(d, p) == add_all(d, store_pairs(p))

\* mutant: the union is built in self, without the deep copy
store_or_in_place(d, p) ==
    [self |-> store_ior(d, p).self, result |-> store_ior(d, p).self,
     raised |-> store_ior(d, p).raised]

\* lines 67-70: __or__, self_copy = copy.deepcopy(self); self_copy |= p
store_or(d, p) ==
    [self |-> d, result |-> store_ior(d, p).self, raised |-> store_ior(d, p).raised]

\* ------------------------------------------------ PasswordSqlite3Repository
\* password_store_repository.py: the database holds the tables titles
\* (id, title) and passwords (id, password, title_id) and, for each of the two
\* AUTOINCREMENT keys, the largest id handed out so far (sqlite_sequence)

\* lines 33-65: the database after __init__ has created the tables
EmptyDb == [titles |-> {}, passwords |-> {}, title_seq |-> 0, password_seq |-> 0]

\* mutant: a title that is stored already is replaced by a new row, and the
\* passwords of the old row go with it (ON DELETE CASCADE)
insert_title_replace(db, title) ==
    LET old == {r \in db.titles : r.title = title}
    IN [db EXCEPT !.titles = (@ \ old) \cup {[id |-> db.title_seq + 1, title |-> title]},
                  !.passwords = {p \in @ : \A r \in old : p.title_id # r.id},
                  !.title_seq = @ + 1]

\* lines 75-78: INSERT INTO titles (title) ... ON CONFLICT DO NOTHING (title is
\* UNIQUE; an insert that is dropped uses up an id all the same)
insert_title(db, title) ==
    IF \E r \in db.titles : r.title = title
    THEN [db EXCEPT !.title_seq = @ + 1]
    ELSE [db EXCEPT !.titles = @ \cup {[id |-> db.title_seq + 1, title |-> title]},
                    !.title_seq = @ + 1]

\* lines 80-83: INSERT INTO passwords(title_id, password) SELECT id ... FROM
\* titles WHERE title = :title, with UNIQUE(title_id, password) ON CONFLICT
\* IGNORE; the title has one row at most
insert_password(db, title, password) ==
    LET ids == {r.id : r \in {x \in db.titles : x.title = title}}
    IN IF ids = {} THEN db
       ELSE LET title_id == CHOOSE i \in ids : TRUE
            IN IF \E p \in db.passwords :
                      p.title_id = title_id /\ p.password = password
               THEN [db EXCEPT !.password_seq = @ + 1]
               ELSE [db EXCEPT !.passwords =
                         @ \cup {[id |-> db.password_seq + 1, password |-> password,
                                  title_id |-> title_id]},
                               !.password_seq = @ + 1]

\* lines 79-83: the loop over the passwords of one title, in the order pws
RECURSIVE save_passwords(_, _, _)
save_passwords(db, title, pws) ==
    IF Len(pws) = 0 THEN db
    ELSE save_passwords(insert_password(db, title, pws[1]), title, Tail(pws))

\* lines 68-83: save(store); the loop visits the titles in the order torder
\* and the passwords of a title in the order porder lists them
RECURSIVE repo_save(_, _, _, _)
repo_save(db, store, torder, porder) ==
    IF Len(torder) = 0 THEN db
    ELSE repo_save(
             save_passwords(insert_title(db, torder[1]), torder[1],
                            SelectSeq(porder, LAMBDA p : p \in store[torder[1]])),
             store, Tail(torder), porder)

\* lines 90-93: SELECT title, json_group_array(password) FROM titles JOIN
\* passwords ON titles.id = passwords.title_id GROUP BY title: the rows as
\* pairs of a title and the set of the ids of its password rows
load_rows(db) ==
    {<<r.title, {p.id : p \in {x \in db.passwords : x.title_id = r.id}}>> :
        r \in {t \in db.titles : \E p \in db.passwords : p.title_id = t.id}}

\* lines 94-95: data = {title: set(json.loads(passwords))}; PasswordStore(data)
load_all(db) ==
    new_store([t \in {row[1] : row \in load_rows(db)} |->
                 {p.password : p \in {x \in db.passwords :
                     \E row \in load_rows(db) : row[1] = t /\ x.id \in row[2]}}])

\* ------------------------------------------------------- RealFileRepository
\* real_file_repository.py: storage paths are sequences of path components;
\* the disk holds the directories s1 and s2 and no symbolic links
S1 == <<"s1">>
S2 == <<"s2">>
OnDisk == {S1, S2}

\* the spellings of storage paths given to the repository: s1, s2, s2/../s1
\* and s3, which is not on disk
StoragePaths == {S1, S2, <<"s2", "..", "s1">>, <<"s3">>}

\* the paths of real files below a storage path
FilePaths == {"f", "g"}

\* Path.resolve(): "." is dropped and ".." leaves the directory before it
RECURSIVE resolve_from(_, _)
resolve_from(done, rest) ==
    IF Len(rest) = 0 THEN done
    ELSE IF rest[1] = "." THEN resolve_from(done, Tail(rest))
    ELSE IF rest[1] = ".."
    THEN resolve_from(IF Len(done) = 0 THEN done ELSE SubSeq(done, 1, Len(done) - 1),
                      Tail(rest))
    ELSE resolve_from(Append(done, rest[1]), Tail(rest))

resolve(path) == resolve_from(<<>>, path)

\* db_schema.py lines 91-99: the tables after ensure_repository_tables, with
\* the largest id handed out so far for each AUTOINCREMENT key
EmptyFilesDb ==
    [storage_paths |-> {}, real_files |-> {}, verifications |-> {},
     storage_path_seq |-> 0, real_file_seq |-> 0]

\* lines 154-158: INSERT OR IGNORE INTO storage_paths (storage_path is UNIQUE)
insert_storage_path(fdb, storage_path) ==
    IF \E r \in fdb.storage_paths : r.storage_path = storage_path
    THEN [fdb EXCEPT !.storage_path_seq = @ + 1]
    ELSE [fdb EXCEPT !.storage_paths =
              @ \cup {[id |-> fdb.storage_path_seq + 1, storage_path |-> storage_path]},
                     !.storage_path_seq = @ + 1]

\* lines 150-158: _initialize_storage_paths, the allowed paths in the order order
RECURSIVE initialize_storage_paths(_, _)
initialize_storage_paths(fdb, order) ==
    IF Len(order) = 0 THEN fdb
    ELSE initialize_storage_paths(insert_storage_path(fdb, order[1]), Tail(order))

\* no repository has been constructed
NoRepository == [state |-> "none", given |-> <<>>, allowed |-> {}, raised |-> ""]

\* lines 22-38: __init__(db_path, allowed_storage_paths); every path is
\* resolved and must exist on disk, the first that does not ends the
\* construction
new_repository(given) ==
    IF \E i \in 1..Len(given) : resolve(given[i]) \notin OnDisk
    THEN [state |-> "failed", given |-> given, allowed |-> {},
          raised |-> "FileNotFoundError"]
    ELSE [state |-> "ready", given |-> given,
          allowed |-> {resolve(given[i]) : i \in 1..Len(given)}, raised |-> ""]

\* mutant: any storage path that exists on disk is accepted
storage_path_allowed_on_disk(allowed, storage_path) == resolve(storage_path) \in OnDisk

\* lines 160-167: _check_storage_path_allowed
storage_path_allowed(allowed, storage_path) == resolve(storage_path) \in allowed

\* the outcome of save or load: the database afterwards, whether a connection
\* to it was opened, the returned value and the exception raised, if any
FileResult(fdb, touched, value, raised) ==
    [fdb |-> fdb, touched |-> touched, value |-> value, raised |-> raised]

NoFile == [storage_path |-> <<>>, path |-> "", size |-> 0, verification |-> <<>>]

\* lines 50-57: DELETE FROM real_files WHERE storage_path_id = (...) AND path = ?
\* (the verifications of a deleted row go with it, ON DELETE CASCADE)
delete_real_file(fdb, storage_path, path) ==
    LET ids == {r.id : r \in {x \in fdb.storage_paths : x.storage_path = storage_path}}
        gone == {r \in fdb.real_files : r.storage_path_id \in ids /\ r.path = path}
    IN [fdb EXCEPT !.real_files = @ \ gone,
                   !.verifications = {v \in @ : \A r \in gone : v.real_file_id # r.id}]

\* lines 58-84: INSERT INTO real_files (...) SELECT storage_paths.id, ... FROM
\* storage_paths WHERE storage_path = :storage_path
insert_real_file(fdb, storage_path, real_file) ==
    LET ids == {r.id : r \in {x \in fdb.storage_paths : x.storage_path = storage_path}}
    IN IF ids = {} THEN fdb
       ELSE [fdb EXCEPT !.real_files =
                 @ \cup {[id |-> fdb.real_file_seq + 1,
                          storage_path_id |-> CHOOSE i \in ids : TRUE,
                          path |-> real_file.path, size |-> real_file.size]},
                        !.real_file_seq = @ + 1]

\* lines 40-119: save(real_file). A verification that names a hash archive
\* fails in _lookup_hash_archive_id (lines 206-229: the repository stores no
\* hash archives); the INSERT INTO verifications leaves out the NOT NULL
\* columns verified and verified_at (db_schema.py lines 70-88). Either
\* exception rolls the transaction back.
file_save(repo, fdb, real_file) ==
    IF ~storage_path_allowed(repo.allowed, real_file.storage_path)
    THEN FileResult(fdb, FALSE, NoFile, "ValueError")
    ELSE IF \E i \in 1..Len(real_file.verification) :
                real_file.verification[i] = "archive"
    THEN FileResult(fdb, TRUE, NoFile, "ValueError")
    ELSE IF Len(real_file.verification) > 0
    THEN FileResult(fdb, TRUE, NoFile, "IntegrityError")
    ELSE FileResult(
             insert_real_file(
                 delete_real_file(fdb, resolve(real_file.storage_path), real_file.path),
                 resolve(real_file.storage_path), real_file),
             TRUE, NoFile, "")

\* lines 121-148: load(storage_path, path)
file_load(repo, fdb, storage_path, path) ==
    IF ~storage_path_allowed(repo.allowed, storage_path)
    THEN FileResult(fdb, FALSE, NoFile, "ValueError")
    ELSE LET rows == {r \in fdb.real_files :
                         /\ r.path = path
                         /\ \E s \in fdb.storage_paths :
                               s.id = r.storage_path_id
                               /\ s.storage_path = resolve(storage_path)}
         IN IF rows = {} THEN FileResult(fdb, TRUE, NoFile, "FileNotFoundError")
            ELSE LET row == CHOOSE r \in rows : TRUE
                 IN FileResult(fdb, TRUE,
                        [storage_path |-> resolve(storage_path), path |-> row.path,
                         size |-> row.size, verification |-> <<>>], "")

\* ------------------------------------------------------------ state machine
\* no call has been made yet
NoCall == Raise("not called", <<>>, 0, {}, 0, {}, 0)

\* what a caller of rar_sort can observe of a call
Observed(r) ==
    [ok |-> r.ok, scheme |-> IF r.ok THEN r.scheme ELSE 0, volumes |-> r.parsed]

NoObs == [ok |-> FALSE, scheme |-> -1, volumes |-> <<>>]

\* find_rar_files / from_path have not been called
NoScan == [ok |-> FALSE, groups |-> <<>>, error |-> NoCall]
NoArch == [given |-> <<>>, result |-> ArchiveRaise("not called", NoError)]

\* get_volumes has not been called
NoVols ==
    [group |-> 0, path |-> <<>>, scheme |-> 0, n_volumes |-> 0,
     result |-> VolumesRaise("not called", "")]

\* no PasswordStore method has been called
EmptyStore == new_store(<<>>)
NoOut ==
    [op |-> "", left |-> "", right |-> "", title |-> "", password |-> "",
     flag |-> FALSE, value |-> {}, store |-> EmptyStore, raised |-> "",
     old_a |-> EmptyStore, old_b |-> EmptyStore]

\* neither save nor load of the RealFileRepository has been called
NoFileCall ==
    [op |-> "", storage_path |-> <<>>, path |-> "", touched |-> FALSE,
     value |-> NoFile, raised |-> "", before |-> EmptyFilesDb]

\* load_all has not been called
NoLoad == [called |-> FALSE, store |-> EmptyStore, n |-> 0]

\* the parts of the state a specification does not use
RarIdle ==
    /\ paths = <<>> /\ pc = "off" /\ ret = NoCall /\ sret = NoCall
    /\ prev = NoObs /\ moved = FALSE
ScanIdle ==
    /\ entries = <<>> /\ seek = NoSeek /\ scan = NoScan /\ arch = NoArch
    /\ gv = NoVols
StoreIdle == sa = EmptyStore /\ sb = EmptyStore /\ out = NoOut
RepoIdle == pwdb = EmptyDb /\ saves = <<>> /\ loaded = NoLoad
FilesIdle == rfr = NoRepository /\ rfdb = EmptyFilesDb /\ rfout = NoFileCall

Init ==
    /\ paths \in Inputs
    /\ pc = "idle"
    /\ ret = NoCall
    /\ sret = NoCall
    /\ prev = NoObs
    /\ moved = FALSE
    /\ ScanIdle
    /\ StoreIdle
    /\ RepoIdle
    /\ FilesIdle

\* parse_rar_list(paths)
CallParseRarList ==
    /\ pc = "idle"
    /\ ret' = parse_rar_list(paths)
    /\ pc' = "parsed"
    /\ UNCHANGED <<paths, sret, prev, moved>>
    /\ UNCHANGED <<scanVars, storeVars, repoVars, fileVars>>

\* rar_sort(paths)
CallRarSort ==
    /\ pc = "parsed"
    /\ sret' = rar_sort(paths)
    /\ pc' = "sorted"
    /\ UNCHANGED <<paths, ret, prev, moved>>
    /\ UNCHANGED <<scanVars, storeVars, repoVars, fileVars>>

\* the caller presents the same filenames again with positions i and i+1
\* exchanged, remembering the outcome of the call before
Reorder(i) ==
    /\ pc = "sorted"
    /\ i \in 1..(Len(paths) - 1)
    /\ paths' = [paths EXCEPT ![i] = paths[i + 1], ![i + 1] = paths[i]]
    /\ prev' = Observed(sret)
    /\ moved' = (paths' # paths)
    /\ ret' = NoCall
    /\ sret' = NoCall
    /\ pc' = "idle"
    /\ UNCHANGED <<scanVars, storeVars, repoVars, fileVars>>

\* the caller presents the very same sequence a second time
Repeat ==
    /\ pc = "sorted"
    /\ prev' = Observed(sret)
    /\ moved' = FALSE
    /\ ret' = NoCall
    /\ sret' = NoCall
    /\ pc' = "idle"
    /\ UNCHANGED <<scanVars, storeVars, repoVars, fileVars>>
    /\ UNCHANGED paths

Next ==
    \/ CallParseRarList
    \/ CallRarSort
    \/ \E i \in 1..MaxLen : Reorder(i)
    \/ Repeat

Spec == Init /\ [][Next]_vars

\* ---------------------------------------- parse_rar_list given full paths
PathInputs == UNION {[1..n -> FullPaths] : n \in 0..MaxLen}

InitPaths ==
    /\ paths \in PathInputs
    /\ pc = "idle"
    /\ ret = NoCall
    /\ sret = NoCall
    /\ prev = NoObs
    /\ moved = FALSE
    /\ ScanIdle
    /\ StoreIdle
    /\ RepoIdle
    /\ FilesIdle

SpecPaths == InitPaths /\ [][Next]_vars

\* ------------------------------ parse_rar_list given indices of two digits
IndexInputs == UNION {[1..n -> IndexNames] : n \in 0..MaxLen}

InitIndices ==
    /\ paths \in IndexInputs
    /\ pc = "idle"
    /\ ret = NoCall
    /\ sret = NoCall
    /\ prev = NoObs
    /\ moved = FALSE
    /\ ScanIdle
    /\ StoreIdle
    /\ RepoIdle
    /\ FilesIdle

SpecIndices == InitIndices /\ [][Next]_vars

\* --------------------------------------------- find_rar_files / from_path
\* directory.iterdir(): the entries, each once, in any order
Listings ==
    UNION {{l \in [1..n -> EntryNames] :
               \A i, j \in 1..n : l[i] = l[j] => i = j} : n \in 0..MaxEntries}

SeekChoices == {NoSeek, A, B}

\* the paths from_path is given: the directory, or a file name in it
GivenChoices == {DirPath} \cup {full_path(n) : n \in EntryNames}

InitScan ==
    /\ entries \in Listings
    /\ seek \in SeekChoices
    /\ scan = NoScan
    /\ arch = NoArch
    /\ gv = NoVols
    /\ RarIdle
    /\ StoreIdle
    /\ RepoIdle
    /\ FilesIdle

\* find_rar_files(directory, seek_stem)
CallFindRarFiles ==
    /\ scan = NoScan
    /\ scan' = find_rar_files(entries, seek)
    /\ UNCHANGED <<entries, seek, arch, gv, rarVars, storeVars, repoVars, fileVars>>

\* RarArchive.from_path(given)
CallFromPath(given) ==
    /\ arch = NoArch
    /\ arch' = [given |-> given, result |-> from_path(entries, given)]
    /\ UNCHANGED <<entries, seek, scan, gv, rarVars, storeVars, repoVars, fileVars>>

\* RarArchive(path, scheme=scheme, n_volumes=n).get_volumes() for the i-th
\* volume set of the scan: path is its first volume, n the number of its volumes
CallGetVolumes(i) ==
    /\ scan.ok
    /\ gv = NoVols
    /\ i \in 1..Len(scan.groups)
    /\ LET g == scan.groups[i]
           path == g.volumes[1]
       IN gv' = [group |-> i, path |-> path, scheme |-> g.scheme,
                   n_volumes |-> Len(g.volumes),
                   result |-> get_volumes(entries, path, g.scheme, Len(g.volumes))]
    /\ UNCHANGED <<entries, seek, scan, arch, rarVars, storeVars, repoVars, fileVars>>

NextScan ==
    \/ CallFindRarFiles
    \/ \E given \in GivenChoices : CallFromPath(given)
    \/ \E i \in 1..MaxEntries : CallGetVolumes(i)

SpecScan == InitScan /\ [][NextScan]_vars

\* ------------------------------------------------------------ PasswordStore
\* PasswordStore(data) for a dict of titles and password sets
StoreData == UNION {[T -> SUBSET Passwords] : T \in SUBSET Titles}

InitStore ==
    /\ sa \in {new_store(d) : d \in StoreData}
    /\ sb \in {new_store(d) : d \in StoreData}
    /\ out = NoOut
    /\ RarIdle
    /\ ScanIdle
    /\ RepoIdle
    /\ FilesIdle

StoreOf(w) == IF w = "a" THEN sa ELSE sb

\* the store named w becomes d, the other one is not touched
Assign(w, d) ==
    IF w = "a" THEN sa' = d /\ sb' = sb ELSE sb' = d /\ sa' = sa

Outcome(op, left, right, title, password, flag, value, store, raised) ==
    [op |-> op, left |-> left, right |-> right, title |-> title,
     password |-> password, flag |-> flag, value |-> value, store |-> store,
     raised |-> raised, old_a |-> sa, old_b |-> sb]

\* w.add_password(title, password)
AddPassword(w, title, password) ==
    LET r == add_password(StoreOf(w), title, password) IN
    /\ Assign(w, r.self)
    /\ out' = Outcome("add", w, "", title, password, FALSE, {}, EmptyStore, r.raised)
    /\ UNCHANGED <<rarVars, scanVars, repoVars, fileVars>>

\* w.remove_password(title, password)
RemovePassword(w, title, password) ==
    LET r == remove_password(StoreOf(w), title, password) IN
    /\ Assign(w, r.self)
    /\ out' = Outcome("remove", w, "", title, password, r.flag, {}, EmptyStore, r.raised)
    /\ UNCHANGED <<rarVars, scanVars, repoVars, fileVars>>

\* w.clear_passwords(title)
ClearPasswords(w, title) ==
    LET r == clear_passwords(StoreOf(w), title) IN
    /\ Assign(w, r.self)
    /\ out' = Outcome("clear", w, "", title, "", FALSE, {}, EmptyStore, r.raised)
    /\ UNCHANGED <<rarVars, scanVars, repoVars, fileVars>>

\* w[title]
GetItem(w, title) ==
    LET r == store_getitem(StoreOf(w), title) IN
    /\ Assign(w, r.self)
    /\ out' = Outcome("getitem", w, "", title, "", FALSE, r.value, EmptyStore, r.raised)
    /\ UNCHANGED <<rarVars, scanVars, repoVars, fileVars>>

\* l | r
Or(l, r) ==
    LET x == store_or(StoreOf(l), StoreOf(r)) IN
    /\ Assign(l, x.self)
    /\ out' = Outcome("or", l, r, "", "", FALSE, {}, x.result, x.raised)
    /\ UNCHANGED <<rarVars, scanVars, repoVars, fileVars>>

\* l |= r
Ior(l, r) ==
    LET x == store_ior(StoreOf(l), StoreOf(r)) IN
    /\ Assign(l, x.self)
    /\ out' = Outcome("ior", l, r, "", "", FALSE, {}, x.self, x.raised)
    /\ UNCHANGED <<rarVars, scanVars, repoVars, fileVars>>

NextStore ==
    \/ \E w \in {"a", "b"}, t \in Titles \cup {""}, p \in Passwords \cup {""} :
          AddPassword(w, t, p)
    \/ \E w \in {"a", "b"}, t \in Titles, p \in Passwords : RemovePassword(w, t, p)
    \/ \E w \in {"a", "b"}, t \in Titles : ClearPasswords(w, t)
    \/ \E w \in {"a", "b"}, t \in Titles : GetItem(w, t)
    \/ \E l, r \in {"a", "b"} : Or(l, r)
    \/ \E l, r \in {"a", "b"} : Ior(l, r)

SpecStore == InitStore /\ [][NextStore]_vars

\* ------------------------------------------------ PasswordSqlite3Repository
MaxSaves == 2

\* the orders in which a loop may visit the elements of a set
Orders(S) ==
    {f \in [1..Cardinality(S) -> S] : \A i, j \in 1..Cardinality(S) : f[i] = f[j] => i = j}

InitRepo ==
    /\ pwdb = EmptyDb
    /\ saves = <<>>
    /\ loaded = NoLoad
    /\ RarIdle
    /\ ScanIdle
    /\ StoreIdle
    /\ FilesIdle

\* repo.save(store) for a store PasswordStore(data)
Save(data, torder, porder) ==
    /\ Len(saves) < MaxSaves
    /\ pwdb' = repo_save(pwdb, new_store(data), torder, porder)
    /\ saves' = Append(saves, [store |-> new_store(data), after |-> pwdb'])
    /\ UNCHANGED <<loaded, rarVars, scanVars, storeVars, fileVars>>

\* repo.load_all()
LoadAll ==
    /\ loaded' = [called |-> TRUE, store |-> load_all(pwdb), n |-> Len(saves)]
    /\ UNCHANGED <<pwdb, saves, rarVars, scanVars, storeVars, fileVars>>

NextRepo ==
    \/ \E data \in StoreData :
          \E torder \in Orders(DOMAIN data), porder \in Orders(Passwords) :
             Save(data, torder, porder)
    \/ LoadAll

SpecRepo == InitRepo /\ [][NextRepo]_vars

\* ------------------------------------------------------- RealFileRepository
MaxFileSaves == 2

\* the iterables of storage paths a repository is constructed with
AllowedChoices == UNION {[1..n -> StoragePaths] : n \in 0..2}

\* the real files given to save: the size stands for the file's attributes
RealFiles ==
    [storage_path : StoragePaths, path : FilePaths, size : {1, 2},
     verification : {<<>>, <<"plain">>, <<"archive">>}]

InitFiles ==
    /\ rfr = NoRepository
    /\ rfdb = EmptyFilesDb
    /\ rfout = NoFileCall
    /\ RarIdle
    /\ ScanIdle
    /\ StoreIdle
    /\ RepoIdle

\* RealFileRepository(db_path, given) on a new database; the set of the
\* allowed paths is visited in the order order
Construct(given, order) ==
    /\ rfr.state = "none"
    /\ rfr' = new_repository(given)
    /\ rfdb' = IF rfr'.state = "ready"
               THEN initialize_storage_paths(EmptyFilesDb, order)
               ELSE rfdb
    /\ UNCHANGED <<rfout, rarVars, scanVars, storeVars, repoVars>>

\* repo.save(real_file)
FileSave(real_file) ==
    /\ rfr.state = "ready"
    /\ rfdb.real_file_seq < MaxFileSaves
    /\ LET r == file_save(rfr, rfdb, real_file)
       IN /\ rfdb' = r.fdb
          /\ rfout' = [op |-> "save", storage_path |-> real_file.storage_path,
                       path |-> real_file.path, touched |-> r.touched,
                       value |-> r.value, raised |-> r.raised, before |-> rfdb]
    /\ UNCHANGED <<rfr, rarVars, scanVars, storeVars, repoVars>>

\* repo.load(storage_path, path)
FileLoad(storage_path, path) ==
    /\ rfr.state = "ready"
    /\ LET r == file_load(rfr, rfdb, storage_path, path)
       IN /\ rfdb' = r.fdb
          /\ rfout' = [op |-> "load", storage_path |-> storage_path,
                       path |-> path, touched |-> r.touched,
                       value |-> r.value, raised |-> r.raised, before |-> rfdb]
    /\ UNCHANGED <<rfr, rarVars, scanVars, storeVars, repoVars>>

NextFiles ==
    \/ \E given \in AllowedChoices :
          \E order \in Orders(new_repository(given).allowed) : Construct(given, order)
    \/ \E real_file \in RealFiles : FileSave(real_file)
    \/ \E storage_path \in StoragePaths, path \in FilePaths : FileLoad(storage_path, path)

SpecFiles == InitFiles /\ [][NextFiles]_vars

TypeOK ==
    /\ paths \in Inputs
    /\ pc \in {"idle", "parsed", "sorted"}
    /\ ret.ok \in BOOLEAN
    /\ sret.ok \in BOOLEAN

\* =================================================================== claims
\* p and q hold the same elements with the same multiplicities
IsPermutationOf(p, q) ==
    /\ Len(p) = Len(q)
    /\ \A x \in {p[i] : i \in 1..Len(p)} \cup {q[i] : i \in 1..Len(q)} :
          Cardinality({i \in 1..Len(p) : p[i] = x})
              = Cardinality({i \in 1..Len(q) : q[i] = x})

\* x comes no later than y in the order (index, original text)
KeyLE(x, y) ==
    \/ x.volume_index < y.volume_index
    \/ /\ x.volume_index = y.volume_index
       /\ (x.path = y.path \/ StrLess(x.path, y.path))

\* vols lists the texts of parsed in ascending (index, original text) order
SortedByIndexThenText(vols, parsed) ==
    /\ Len(vols) = Len(parsed)
    /\ \E f \in Permutations(1..Len(parsed)) :
          /\ \A i \in 1..Len(parsed) : vols[i] = parsed[f[i]].path
          /\ \A i \in 1..(Len(parsed) - 1) : KeyLE(parsed[f[i]], parsed[f[i + 1]])

\* C1: presenting the same filenames again, in the same or in another order,
\* gives the same outcome: both calls fail, or both succeed with the same
\* scheme and the same volume list, which is sorted by (index, original text).
C1_OrderIndependent ==
    (pc = "sorted" /\ prev # NoObs) =>
        /\ sret.ok = prev.ok
        /\ sret.ok => /\ sret.scheme = prev.scheme
                      /\ sret.parsed = prev.volumes
                      /\ SortedByIndexThenText(sret.parsed, ret.parsed)

C1_Witness ==
    /\ pc = "sorted" /\ moved /\ prev.ok /\ sret.ok
    /\ Len(paths) >= 3
    /\ sret.parsed # paths

\* the digit character of d, 0 <= d <= 9
DigitChar(d) == CHOOSE c \in Digit : DigitVal(c) = d

\* stem.rar for i = -1, stem.rNN for 0 <= i <= 99
LegacyName(stem, i) ==
    IF i = -1 THEN stem \o <<".", "r", "a", "r">>
    ELSE stem \o <<".", "r", DigitChar(i \div 10), DigitChar(i % 10)>>

\* stem.rar, stem.r00, ..., stem.r(n-2)
LegacyList(stem, n) == [i \in 1..n |-> LegacyName(stem, i - 2)]

Prefixes(s) == {SubSeq(s, 1, k) : k \in 1..Len(s)}

\* the stems for which the input is stem.rar, stem.r00, ... in some order
LegacyStems ==
    IF Len(paths) = 0 THEN {}
    ELSE {stem \in Prefixes(paths[1]) :
             IsPermutationOf(paths, LegacyList(stem, Len(paths)))}

\* stem has the form <x>.part<digits> with the digits denoting 1
IsPartOneStem(stem) ==
    \E k \in 1..Len(stem) :
        /\ Lit(stem, k + 1, <<".", "p", "a", "r", "t">>)
        /\ AllDigits(SubSeq(stem, k + 6, Len(stem)))
        /\ IntOf(SubSeq(stem, k + 6, Len(stem))) = 1

\* C2 as stated: every legacy set stem.rar, stem.r00, ..., stem.r(N-2), in
\* any order, resolves to DOT_RNN with stem.rar first and rNN ascending
\* (a stem being text the pattern's `.+` can match: no line break in it).
C2_Original ==
    pc = "sorted" =>
        \A stem \in LegacyStems :
            DotPlus(stem) =>
            /\ sret.ok
            /\ sret.scheme = DOT_RNN
            /\ sret.parsed = LegacyList(stem, Len(paths))

\* C2 (amended): the same for every stem without a line break, except that
\* for N = 1 the stem must not have the form <x>.part<digits> with value 1.
C2_LegacyRoundTrip ==
    pc = "sorted" =>
        \A stem \in LegacyStems :
            (DotPlus(stem) /\ ~(Len(paths) = 1 /\ IsPartOneStem(stem))) =>
                /\ sret.ok
                /\ sret.scheme = DOT_RNN
                /\ sret.parsed = LegacyList(stem, Len(paths))

C2_Witness ==
    /\ pc = "sorted" /\ Len(paths) >= 3
    /\ LegacyStems # {}
    /\ paths # sret.parsed
    /\ sret.scheme = DOT_RNN

\* the Part pattern applied to every input
PartMatches == [i \in 1..Len(paths) |-> PART_N_PAT_match(paths[i])]

AllMatchPart == \A i \in 1..Len(paths) : PartMatches[i].matched

\* the index the Part pattern reads from input i (which must match it)
PartIndex(i) == IntOf(PartMatches[i].volume_index)

\* parse_rar_list(paths) has been called and has ended
Called == pc \in {"parsed", "sorted"}

\* C3: for two or more inputs, parse_rar_list returns PART_N if and only if
\* every input matches the Part pattern, all stems are the same and the
\* indices are 1, 2, ..., n, each once; the lowest index (the base) is then 1.
C3_PartNumbered ==
    (Called /\ Len(paths) >= 2) =>
        /\ (ret.ok /\ ret.scheme = PART_N) <=>
              /\ AllMatchPart
              /\ \A i \in 1..Len(paths) : PartMatches[i].stem = PartMatches[1].stem
              /\ IsPermutationOf([i \in 1..Len(paths) |-> PartIndex(i)],
                                 [i \in 1..Len(paths) |-> i])
        /\ (ret.ok /\ ret.scheme = PART_N) => SetMin(ret.actual) = 1

C3_Witness ==
    /\ pc = "parsed" /\ Len(paths) >= 2
    /\ ret.ok /\ ret.scheme = PART_N
    /\ ret.parsed[1].volume_index # 1

\* the input is one filename that matches the Part pattern
LonePart == Len(paths) = 1 /\ AllMatchPart

\* C4: a single file that matches the Part pattern with index 1 is accepted,
\* the scheme is AMBIGUOUS and the volume list is exactly that file.
C4_LonePartOne ==
    (Called /\ LonePart /\ PartIndex(1) = 1) =>
        /\ ret.ok
        /\ ret.scheme = AMBIGUOUS
        /\ Len(ret.parsed) = 1
        /\ ret.parsed[1].path = paths[1]

C4_Witness ==
    /\ pc = "parsed" /\ LonePart /\ PartIndex(1) = 1
    /\ ret.scheme = AMBIGUOUS
    /\ Len(paths[1]) = 12                  \* a.part01.rar: index written 01

\* C5: a single file that matches the Part pattern with another index than 1
\* never fails: it is taken as DOT_RNN, the actual index set becomes {-1},
\* and the result holds that one file.
C5_LonePartOther ==
    (Called /\ LonePart /\ PartIndex(1) # 1) =>
        /\ ret.ok
        /\ ret.scheme = DOT_RNN
        /\ ret.actual = {-1}
        /\ Len(ret.parsed) = 1
        /\ ret.parsed[1].path = paths[1]

C5_Witness ==
    /\ pc = "parsed" /\ LonePart /\ PartIndex(1) = 0
    /\ ret.line = 148

\* C6: AMBIGUOUS is returned for no input of two or more filenames, and only
\* for one filename that matches the Part pattern with index 1.
C6_AmbiguousOnlyLonePartOne ==
    (Called /\ ret.ok /\ ret.scheme = AMBIGUOUS) =>
        /\ Len(paths) < 2
        /\ LonePart
        /\ PartIndex(1) = 1

C6_Witness ==
    /\ pc = "sorted" /\ sret.ok /\ sret.scheme = AMBIGUOUS
    /\ ret.line = 120

\* C7: the empty input returns (PART_N, []) from the first statement, before
\* any matching or validation.
C7_EmptyInput ==
    (Called /\ Len(paths) = 0) =>
        /\ ret.ok
        /\ ret.scheme = PART_N
        /\ ret.parsed = <<>>
        /\ ret.line = 87

C7_Witness == pc = "parsed" /\ paths = <<>> /\ ret.line = 87

\* the inputs pass the matching step (lines 89-101)
MatchingPasses == ~any_none(final_matches(paths))

\* the stem the matching step reads from input i
ParsedStem(i) == final_matches(paths)[i].stem

\* the inputs whose stem differs from the stem of the first input
DifferingStems == {i \in 1..Len(paths) : ParsedStem(i) # ParsedStem(1)}

\* C8: when the parsed stems are not all the same, the call fails with
\* "<entry> has an inconsistent stem" for the first entry in input order
\* whose stem differs from the first input's; no result has differing stems.
C8_StemConsistency ==
    (Called /\ Len(paths) >= 1 /\ MatchingPasses) =>
        /\ DifferingStems # {} =>
              /\ ~ret.ok
              /\ ret.err = "stem"
              /\ ret.err_path = paths[SetMin(DifferingStems)]
        /\ ret.ok =>
              \A i, j \in 1..Len(ret.parsed) : ret.parsed[i].stem = ret.parsed[j].stem

C8_Witness ==
    /\ pc = "parsed" /\ ret.err = "stem"
    /\ Len(paths) = 3
    /\ ret.err_path = paths[3]

\* the number of inputs matched with the unsuffixed suffix "rar"
UnsuffixedCount ==
    Cardinality({i \in 1..Len(paths) :
                    final_matches(paths)[i].suffix = <<"r", "a", "r">>})

\* the call got as far as the legacy structural check with scheme DOT_RNN
ReachedLegacyCheck == Called /\ ret.line >= 131 /\ ret.scheme = DOT_RNN

\* C9: when the final scheme is DOT_RNN and the number k of inputs with the
\* unsuffixed suffix is not 1, the call fails with "<k> paths have a
\* non-indexed suffix; must be exactly one"; a DOT_RNN result has k = 1.
C9_LegacyStructure ==
    ReachedLegacyCheck =>
        /\ UnsuffixedCount # 1 =>
              /\ ~ret.ok
              /\ ret.err = "unnumbered"
              /\ ret.err_count = UnsuffixedCount
        /\ ret.ok => UnsuffixedCount = 1

C9_Witness ==
    /\ pc = "parsed" /\ ret.err = "unnumbered"
    /\ ret.err_count = 0
    /\ Len(paths) >= 1

\* the call got as far as the completeness check (lines 135-148)
ReachedCompleteness == Called /\ ret.line >= 138

\* the set of indices parsed from the inputs
ParsedIndices ==
    {from_match(final_matches(paths)[i]).volume_index : i \in 1..Len(paths)}

\* base .. base + count - 1 for the scheme in force at the check
ExpectedIndices ==
    LET base == IF ret.scheme = PART_N THEN 1 ELSE -1
    IN base .. (base + Len(paths) - 1)

\* the outcome the claim prescribes for the index set idx
CompletenessOutcome(idx) ==
    /\ idx \ ExpectedIndices # {} =>
          /\ ~ret.ok
          /\ ret.err = "unexpected"
          /\ ret.err_indices = idx \ ExpectedIndices
    /\ (idx \ ExpectedIndices = {} /\ ExpectedIndices \ idx # {}) =>
          /\ ~ret.ok
          /\ ret.err = "missing"
          /\ ret.err_indices = ExpectedIndices \ idx

\* C10 as stated: any parsed index outside expected fails with the unexpected
\* error naming the spurious indices, otherwise any absent expected index
\* fails with the missing error; spurious wins when both exist.
C10_Original == ReachedCompleteness => CompletenessOutcome(ParsedIndices)

\* the actual index set: the parsed indices, or {-1} for a single file that
\* matches the Part pattern with another index than 1
ActualIndices ==
    IF LonePart /\ PartIndex(1) # 1 THEN {-1} ELSE ParsedIndices

\* C10 (amended): the same, with the actual index set in place of the parsed
\* indices.
C10_Completeness == ReachedCompleteness => CompletenessOutcome(ActualIndices)

C10_Witness ==
    /\ pc = "parsed" /\ ret.err = "unexpected"
    /\ ExpectedIndices \ ActualIndices # {}
    /\ ActualIndices \ ExpectedIndices # {}

\* ------------------------------------------------------------------- C11
FailsPart(i) == ~PART_N_PAT_table[paths[i]].matched
FailsLegacy(i) == ~DOT_RNN_PAT_table[paths[i]].matched

\* some input fails the Part pattern and some input fails the Legacy pattern
PatternMismatch ==
    /\ \E i \in 1..Len(paths) : FailsPart(i)
    /\ \E i \in 1..Len(paths) : FailsLegacy(i)

FirstFailingLegacy ==
    paths[SetMin({i \in 1..Len(paths) : FailsLegacy(i)})]

\* C11: when an input fails the Part pattern and an input fails the Legacy
\* pattern, parse_rar_list fails for the first input failing the Legacy
\* pattern with the message '"<path>" does not match the version-3 pattern'.
C11_Original ==
    (Called /\ PatternMismatch) =>
        /\ ~ret.ok
        /\ ret.err_path = FirstFailingLegacy
        /\ ret.text = "\"{path}\" does not match the version-3 pattern"

\* ------------------------------------------------------------------- C12
MatchesBoth(i) ==
    PART_N_PAT_table[paths[i]].matched /\ DOT_RNN_PAT_table[paths[i]].matched

FinalSegments == [i \in 1..Len(paths) |-> name_of(paths[i])]

IndexList(r) == [i \in 1..Len(r.parsed) |-> r.parsed[i].volume_index]

\* success or the same kind of failure, the same scheme, the same indices
SameOutcome(r, q) ==
    /\ r.ok = q.ok
    /\ r.err = q.err
    /\ r.scheme = q.scheme
    /\ IndexList(r) = IndexList(q)

\* C13: for a list of full paths parse_rar_list gives the same outcome as for
\* the list of the paths' final segments.
C13_Original ==
    pc = "parsed" => SameOutcome(ret, parse_rar_list(FinalSegments))

\* ------------------------------------------------------------------- C14
Scanned == scan # NoScan

\* the entry matches one of the two patterns
Matched(n) == PART_N_PAT_table[n].matched \/ DOT_RNN_PAT_table[n].matched

\* the stem of the Part match if there is one, else of the Legacy match
ExtractedStem(n) ==
    IF PART_N_PAT_table[n].matched THEN PART_N_PAT_table[n].stem
    ELSE DOT_RNN_PAT_table[n].stem

\* the places <<g, j>> of the returned mapping that hold the entry n
PlacesOf(n) ==
    {gj \in (1..Len(scan.groups)) \X (1..MaxEntries + 1) :
        /\ gj[2] <= Len(scan.groups[gj[1]].volumes)
        /\ scan.groups[gj[1]].volumes[gj[2]] = full_path(n)}

DistinctKeys ==
    \A g, h \in 1..Len(scan.groups) :
        scan.groups[g].key = scan.groups[h].key => g = h

EntrySet == {entries[i] : i \in 1..Len(entries)}

\* C14: without seek_stem, a successful scan ignores the entries matching
\* neither pattern and returns every matched entry in exactly one group, whose
\* key is the stem of the entry's Part match or, failing that, of its Legacy
\* match.
C14_Grouping ==
    (Scanned /\ seek = NoSeek /\ scan.ok) =>
        /\ DistinctKeys
        /\ \A n \in EntrySet :
              IF Matched(n)
              THEN /\ Cardinality(PlacesOf(n)) = 1
                   /\ \A gj \in PlacesOf(n) :
                         scan.groups[gj[1]].key = ExtractedStem(n)
              ELSE PlacesOf(n) = {}

C14_Witness ==
    /\ Scanned /\ seek = NoSeek /\ scan.ok
    /\ Len(scan.groups) >= 2
    /\ \E n \in EntrySet : ~Matched(n)
    /\ \E n \in EntrySet : PART_N_PAT_table[n].matched

\* ------------------------------------------------------------------- C15
\* the entries whose extracted stem is st, in listing order
EntriesOfStem(st) ==
    SelectSeq(entries, LAMBDA n : Matched(n) /\ ExtractedStem(n) = st)

VolumeSet(g) == {g.volumes[j] : j \in 1..Len(g.volumes)}

\* C15: with a non-empty seek_stem the returned mapping has no key other than
\* seek_stem, its group holds exactly the entries whose extracted stem is
\* seek_stem, and the outcome is the one of scanning a directory from which
\* the entries of other stems have been removed.
C15_SeekStem ==
    (Scanned /\ seek # NoSeek) =>
        /\ scan.ok =>
              /\ \A g \in 1..Len(scan.groups) :
                    /\ scan.groups[g].key = seek
                    /\ VolumeSet(scan.groups[g]) =
                         {full_path(n) : n \in {m \in EntrySet :
                             Matched(m) /\ ExtractedStem(m) = seek}}
              /\ Len(scan.groups) = IF Len(EntriesOfStem(seek)) = 0 THEN 0 ELSE 1
        /\ scan = find_rar_files(EntriesOfStem(seek), seek)

C15_Witness ==
    /\ Scanned /\ seek # NoSeek /\ scan.ok
    /\ Len(scan.groups) = 1
    /\ Len(scan.groups[1].volumes) >= 2
    /\ \E n \in EntrySet : Matched(n) /\ ExtractedStem(n) # seek

\* ------------------------------------------------------------------- C16
\* the stems kept by the scan whose group fails parse validation
KeptStems ==
    {ExtractedStem(n) : n \in {m \in EntrySet :
        Matched(m) /\ (seek = NoSeek \/ ExtractedStem(m) = seek)}}

GroupPaths(st) ==
    [j \in 1..Len(EntriesOfStem(st)) |-> full_path(EntriesOfStem(st)[j])]

FailingStems == {st \in KeptStems : ~rar_sort(GroupPaths(st)).ok}

\* C16: if parse validation fails for a stem group, find_rar_files raises the
\* error of a failing group as it is and returns no mapping, whatever the
\* other groups are; if no group fails, the scan succeeds.
C16_AllOrNothing ==
    Scanned =>
        IF FailingStems # {}
        THEN /\ ~scan.ok
             /\ scan.groups = <<>>
             /\ \E st \in FailingStems : scan.error = rar_sort(GroupPaths(st))
        ELSE scan.ok /\ scan.error = NoError

C16_Witness ==
    /\ Scanned /\ ~scan.ok
    /\ scan.error.err # ""
    /\ KeptStems \ FailingStems # {}

\* ------------------------------------------------------------------- C17
\* the match of a returned path under the returned scheme
SortedMatch(p) ==
    IF sret.scheme = PART_N THEN PART_N_PAT_table[p] ELSE DOT_RNN_PAT_table[p]

SortedIndex(i) == from_match(SortedMatch(sret.parsed[i])).volume_index
SortedStem(i) == SortedMatch(sret.parsed[i]).stem

ExampleLegacy == <<A \o <<".", "r", "0", "0">>, A \o RAR, A \o <<".", "r", "0", "1">>>>
ExamplePart == <<A \o PART \o <<"2">> \o RAR, A \o PART \o <<"1">> \o RAR>>

LegacySet(st) ==
    [files |-> {st \o RAR, st \o <<".", "r", "0", "0">>},
     main |-> st \o RAR, scheme |-> DOT_RNN]

PartSet(st) ==
    [files |-> {st \o PART \o <<"1">> \o RAR, st \o PART \o <<"2">> \o RAR},
     main |-> st \o PART \o <<"1">> \o RAR, scheme |-> PART_N]

PaddedPartSet(st) ==
    [files |-> {st \o PART \o <<"0", "1">> \o RAR,
                st \o PART \o <<"0", "2">> \o RAR},
     main |-> st \o PART \o <<"0", "1">> \o RAR, scheme |-> PART_N]

CompleteSets == {LegacySet(A), LegacySet(B), PartSet(A), PaddedPartSet(A)}

\* the directory's volume files of the set's stem are exactly the set
HoldsSet(set) ==
    /\ set.files \subseteq EntrySet
    /\ \A n \in EntrySet :
          (Matched(n) /\ ExtractedStem(n) = ExtractedStem(set.main))
              => n \in set.files

\* C18: from_path given the main volume of a complete multi-volume set of its
\* directory, in either naming scheme, succeeds with the set's scheme, the
\* number of the set's volume files and the given path as the archive's path.
C18_Original ==
    arch # NoArch =>
        \A set \in CompleteSets :
            (HoldsSet(set) /\ arch.given = full_path(set.main)) =>
                /\ arch.result.ok
                /\ arch.result.scheme = set.scheme
                /\ arch.result.n_volumes = Cardinality(set.files)
                /\ arch.result.path = arch.given

\* ------------------------------------------------------------------- C19
\* the passwords a store holds for a title (none for a title it lacks)
Lookup(d, t) == IF t \in DOMAIN d THEN d[t] ELSE {}

\* the operands before the call
OldOf(w) == IF w = "a" THEN out.old_a ELSE out.old_b
OldLeft == OldOf(out.left)
OldRight == OldOf(out.right)

IsUnion(d) ==
    /\ \A t \in Titles : Lookup(d, t) = Lookup(OldLeft, t) \cup Lookup(OldRight, t)
    /\ DOMAIN d \subseteq (DOMAIN OldLeft) \cup (DOMAIN OldRight)

\* C19: a | b returns a store holding for each title the union of the
\* passwords of a and b and leaves a and b as they were; a |= b turns a into
\* that union and leaves b as it was.
C19_Union ==
    /\ out.op = "or" =>
          /\ out.raised = ""
          /\ IsUnion(out.store)
          /\ sa = out.old_a /\ sb = out.old_b
    /\ out.op = "ior" =>
          /\ out.raised = ""
          /\ IsUnion(StoreOf(out.left))
          /\ out.store = StoreOf(out.left)
          /\ out.left # out.right => StoreOf(out.right) = OldRight
          /\ out.left = out.right => StoreOf(out.left) = OldLeft

C19_Witness ==
    /\ out.op = "or" /\ out.left # out.right
    /\ out.store # out.old_a /\ out.store # out.old_b
    /\ \E t \in Titles : Lookup(out.old_a, t) # {} /\ Lookup(out.old_b, t) # {}
                          /\ Lookup(out.old_a, t) # Lookup(out.old_b, t)

\* ------------------------------------------------------------------- C20
\* the pair was in the store before the call
WasPresent == out.password \in Lookup(OldLeft, out.title)

\* C20: remove_password returns True exactly when the pair was present; it
\* then removes that password only, and the title with it when it was the
\* title's last password (len one less); with the pair absent the store is
\* unchanged.
C20_Remove ==
    out.op = "remove" =>
        LET new == StoreOf(out.left) IN
        /\ out.flag = WasPresent
        /\ WasPresent =>
              /\ Lookup(new, out.title) = Lookup(OldLeft, out.title) \ {out.password}
              /\ \A t \in Titles \ {out.title} :
                    /\ store_contains(new, t) = store_contains(OldLeft, t)
                    /\ Lookup(new, t) = Lookup(OldLeft, t)
              /\ IF Lookup(OldLeft, out.title) = {out.password}
                 THEN /\ ~store_contains(new, out.title)
                      /\ store_len(new) = store_len(OldLeft) - 1
                 ELSE /\ store_contains(new, out.title)
                      /\ store_len(new) = store_len(OldLeft)
        /\ ~WasPresent => new = OldLeft
        /\ \A w \in {"a", "b"} \ {out.left} : StoreOf(w) = OldOf(w)

C20_Witness ==
    /\ out.op = "remove" /\ out.flag
    /\ ~store_contains(StoreOf(out.left), out.title)
    /\ store_len(StoreOf(out.left)) = 1

\* ------------------------------------------------------------------- C23
\* every input matches the Part pattern
AllPart == \A i \in 1..Len(paths) : ~FailsPart(i)

\* the match the validation steps work on
StepMatch(i) ==
    IF AllPart THEN PART_N_PAT_table[paths[i]] ELSE DOT_RNN_PAT_table[paths[i]]

StepIndex(i) == from_match(StepMatch(i)).volume_index

\* a single file matching the Part pattern: index 1 is accepted at once, any
\* other index is looked at as a legacy base volume
LoneOne == Len(paths) = 1 /\ AllPart /\ StepIndex(1) = 1
LoneOther == Len(paths) = 1 /\ AllPart /\ StepIndex(1) # 1

StepLegacy == ~AllPart \/ LoneOther
StepActual == IF LoneOther THEN {-1} ELSE {StepIndex(i) : i \in 1..Len(paths)}
StepExpected ==
    IF StepLegacy THEN -1 .. (Len(paths) - 2) ELSE 1 .. Len(paths)

FailsPatternStep == ~AllPart /\ \E i \in 1..Len(paths) : FailsLegacy(i)
FailsStemStep == \E i \in 1..Len(paths) : StepMatch(i).stem # StepMatch(1).stem
FailsSuffixStep ==
    /\ StepLegacy
    /\ Cardinality({i \in 1..Len(paths) : StepMatch(i).suffix = <<"r", "a", "r">>}) # 1
FailsUnexpectedStep == StepActual \ StepExpected # {}
FailsMissingStep == StepExpected \ StepActual # {}

\* the error of the earliest failing step, "" when no step fails
FirstFailingStep ==
    IF FailsPatternStep THEN "no_match"
    ELSE IF FailsStemStep THEN "stem"
    ELSE IF FailsSuffixStep THEN "unnumbered"
    ELSE IF FailsUnexpectedStep THEN "unexpected"
    ELSE IF FailsMissingStep THEN "missing"
    ELSE ""

TwiceUnsuffixed == <<A \o RAR, A \o RAR>>

\* C23: the validation steps run in the order pattern, stem, non-indexed
\* suffix count (legacy only), unexpected indices, missing indices, and the
\* error reported is the one of the earliest failing step; (a.rar, a.rar)
\* reports "2 paths have a non-indexed suffix; must be exactly one".
C23_StepOrder ==
    (Called /\ Len(paths) >= 1 /\ ~LoneOne) =>
        /\ ret.err = FirstFailingStep
        /\ ret.ok <=> FirstFailingStep = ""
        /\ paths = TwiceUnsuffixed =>
              /\ ret.err = "unnumbered" /\ ret.err_count = 2
              /\ ret.text = "{n_unnumbered} paths have a non-indexed suffix; must be exactly one"

C23_Witness ==
    /\ Called /\ paths = TwiceUnsuffixed
    /\ ret.err = "unnumbered"
    /\ FailsMissingStep

\* ------------------------------------------------------------------- C26
ReturnedIndices == {ret.parsed[i].volume_index : i \in 1..Len(ret.parsed)}

\* the returned volume is matched by the unsuffixed branch of the Legacy
\* pattern and by nothing else
UnsuffixedLegacy(v) ==
    /\ DOT_RNN_PAT_table[v.path].matched
    /\ DOT_RNN_PAT_table[v.path].volume_index = None
    /\ v.stem = DOT_RNN_PAT_table[v.path].stem

\* C26: a successful DOT_RNN result for n inputs carries exactly the indices
\* -1, 0, ..., n-2, one volume has index -1, it is the first in sorted order,
\* and it is matched by the unsuffixed branch of the Legacy pattern.
C26_Original ==
    (pc = "sorted" /\ ret.ok /\ ret.scheme = DOT_RNN) =>
        /\ ReturnedIndices = -1 .. (Len(paths) - 2)
        /\ Cardinality({i \in 1..Len(ret.parsed) :
                           ret.parsed[i].volume_index = -1}) = 1
        /\ \A i \in 1..Len(ret.parsed) :
              ret.parsed[i].volume_index = -1 =>
                  /\ UnsuffixedLegacy(ret.parsed[i])
                  /\ sret.parsed[1] = ret.parsed[i].path

\* ------------------------------------------------------------------- C27
PartOne == A \o PART \o <<"1">> \o RAR
PartOnePadded == A \o PART \o <<"0", "1">> \o RAR
PathSet == {paths[i] : i \in 1..Len(paths)}

\* C27: a successful resolution of n >= 1 inputs returns n volumes whose
\* paths are the inputs and whose indices are pairwise different; an input
\* holding the same filename twice, or a.part1.rar and a.part01.rar, never
\* resolves.
C27_VolumesAreInputs ==
    (Called /\ Len(paths) >= 1 /\ ret.ok) =>
        /\ Len(ret.parsed) = Len(paths)
        /\ \A i \in 1..Len(paths) : ret.parsed[i].path = paths[i]
        /\ \A i, j \in 1..Len(paths) :
              i # j => /\ ret.parsed[i].volume_index # ret.parsed[j].volume_index
                       /\ paths[i] # paths[j]
        /\ ~({PartOne, PartOnePadded} \subseteq PathSet)

C27_Witness ==
    /\ Called /\ ret.ok /\ Len(paths) = 3
    /\ ret.scheme = PART_N
    /\ PartOne \in PathSet

\* ------------------------------------------------------------------- C29
SoleName == paths[1]
MatchesNeither ==
    ~PART_N_PAT_table[SoleName].matched /\ ~DOT_RNN_PAT_table[SoleName].matched

\* stem.rNN
Continuation ==
    /\ DOT_RNN_PAT_table[SoleName].matched
    /\ DOT_RNN_PAT_table[SoleName].volume_index # None

SolePart == PART_N_PAT_table[SoleName].matched
SolePartIndex == IntOf(PART_N_PAT_table[SoleName].volume_index)

\* C29: for one filename parse_rar_list fails exactly when the name matches
\* neither pattern or is a legacy continuation name; stem.rar resolves to
\* DOT_RNN, stem.part1.rar to AMBIGUOUS and stem.part<N>.rar with N # 1 to
\* DOT_RNN.
C29_SingleFile ==
    (Called /\ Len(paths) = 1) =>
        /\ ~ret.ok <=> (MatchesNeither \/ Continuation)
        /\ ret.ok =>
              ret.scheme = IF SolePart /\ SolePartIndex = 1 THEN AMBIGUOUS
                           ELSE DOT_RNN

C29_Witness ==
    /\ Called /\ Len(paths) = 1 /\ ret.ok
    /\ SolePart /\ SolePartIndex # 1
    /\ ret.scheme = DOT_RNN

\* ------------------------------------------------------------------- C24
Ascending(seq) == \A i, j \in 1..Len(seq) : i < j => seq[i] < seq[j]

\* C24: in the "unexpected" and "missing" messages the offending indices are
\* listed in ascending numeric order whenever there are two or more of them.
C24_Original ==
    (Called /\ ret.err \in {"unexpected", "missing"}
            /\ Cardinality(ret.err_indices) >= 2) =>
        /\ {ret.listed[i] : i \in 1..Len(ret.listed)} = ret.err_indices
        /\ Len(ret.listed) = Cardinality(ret.err_indices)
        /\ Ascending(ret.listed)

\* ------------------------------------------------------------------- C30
\* every title of the store has a password, so that len counts the titles
\* with at least one password
NoEmptyTitle(d) ==
    /\ \A t \in Titles : store_contains(d, t) => Lookup(d, t) # {}
    /\ store_len(d) = Cardinality({t \in Titles : Lookup(d, t) # {}})

\* C30: an operation on stores in which every title has at least one password
\* leaves them so (every title with `title in store` has a password and len is
\* the number of titles with a password), and store[title] for an unknown
\* title returns the empty set without changing len or membership.
C30_Original ==
    (out.op # "" /\ NoEmptyTitle(out.old_a) /\ NoEmptyTitle(out.old_b)) =>
        /\ NoEmptyTitle(sa)
        /\ NoEmptyTitle(sb)
        /\ (out.op = "getitem" /\ ~store_contains(OldLeft, out.title)) =>
              /\ out.value = {}
              /\ store_len(StoreOf(out.left)) = store_len(OldLeft)
              /\ \A t \in Titles :
                    store_contains(StoreOf(out.left), t) = store_contains(OldLeft, t)

\* ------------------------------------------------------------------- C28
\* C28: whatever the directory holds, find_rar_files does not fail with the
\* "inconsistent stem" error: the entries of one group have one common stem
\* for the parser.
C28_Original ==
    Scanned => (scan.ok \/ scan.error.err # "stem")
\* ------------------------------------------------------------------- C25
\* the paths of the i-th volume set of the scan, in the resolver's order
ResolvedPaths(i) == scan.groups[i].volumes

\* C25: for a volume set of two or more volumes that find_rar_files resolved,
\* get_volumes on the archive built from it (first volume, resolved scheme,
\* number of volumes) raises nothing and returns the resolver's ordered list.
C25_Original ==
    (gv # NoVols /\ gv.n_volumes >= 2) =>
        /\ gv.result.ok
        /\ gv.result.volumes = ResolvedPaths(gv.group)
\* ------------------------------------------------------------------- C21
\* the passwords saved for the title t by the first n calls of save
SavedFor(t, n) == UNION {Lookup(saves[k].store, t) : k \in 1..n}

\* the database before the k-th save
DbBefore(k) == IF k = 1 THEN EmptyDb ELSE saves[k - 1].after

NotAllowed == resolve(rfout.storage_path) \notin rfr.allowed

====
